---- MODULE Spec2Model ----
(***************************************************************************)
(* Model of the SW360 release client (sw360/releases.py) and of its typed  *)
(* error (sw360/sw360error.py).                                            *)
(*                                                                         *)
(* JSON objects (Python dicts) are functions from key strings to values;   *)
(* Python's None is the record None.  Strings that the code concatenates   *)
(* (URLs) are sequences of tokens, so that the text the code builds can be *)
(* parsed again the way an HTTP server parses it.                          *)
(***************************************************************************)
EXTENDS Integers, Sequences, FiniteSets, TLC

\* ------------------------------------------------------------------ bounds
MaxValue == 2

\* ------------------------------------------------------------ JSON values
None == [null |-> TRUE]
EmptyObj == [k \in {} |-> ""]

Put(obj, k, v) == [x \in (DOMAIN obj) \cup {k} |-> IF x = k THEN v ELSE obj[x]]
Del(obj, k) == [x \in (DOMAIN obj) \ {k} |-> obj[x]]

\* Python truth value of an Optional[dict]: None and {} are false
Truthy(obj) == obj # None /\ DOMAIN obj # {}

\* --------------------------------------------------------- value universes
ExtIdNames == {"X", "Y"}
ExtIdValues == {ToString(i) : i \in 1..MaxValue}
ExtIdMaps == UNION {[D -> ExtIdValues] : D \in SUBSET ExtIdNames}
Versions == {"1.0", "2.0"}
Releases == {[version |-> "1.0"]} \cup {[version |-> "1.0", externalIds |-> m] : m \in ExtIdMaps}
ReleaseIds == {"r1"}
CallIds == {"", "r1", "r2"}
UpdateModes == {"none", "overwrite", "delete", "replace"}

\* ------------------------------------------------------------------- URLs
url == <<"https://sw360.example/">>
Str(s) == IF s = "" THEN <<>> ELSE <<s>>

\* ---------------------------------------------------------- HTTP responses
StatusCodes == {200, 304, 404}
JsonText == "{\"a\": 1}"
Texts == {JsonText, "<html>"}
Responses == [status_code : StatusCodes, text : Texts]

ResponseOk2xxOnly(response) == 200 <= response.status_code /\ response.status_code < 300

\* requests.Response.ok: raise_for_status() raises for 400 <= status < 600
ResponseOk(response) == ~(400 <= response.status_code /\ response.status_code < 600)
Is2xx(response) == 200 <= response.status_code /\ response.status_code < 300

\* json.loads(text): the parsed value, or JSONDecodeError
JsonLoads(text) ==
    CASE text = JsonText -> [ok |-> TRUE, value |-> [a |-> 1]]
      [] text = "{}"     -> [ok |-> TRUE, value |-> EmptyObj]
      [] OTHER           -> [ok |-> FALSE]

\* str(response)
StrOfResponse(response) ==
    IF response = None THEN "None"
    ELSE "<Response [" \o ToString(response.status_code) \o "]>"

\* SW360Error.__init__: the attributes the constructor assigns
SW360Error(response, errurl, message) ==
    LET base == [message |-> message, response |-> response, url |-> errurl,
                 args |-> IF message # "" THEN message ELSE StrOfResponse(response)]
    IN  IF response # None
        THEN IF JsonLoads(response.text).ok
             THEN Put(base, "details", JsonLoads(response.text).value)
             ELSE Put(base, "details", None)
        ELSE base

Raise(err) == [kind |-> "raise", exc |-> "SW360Error", error |-> err]
RaiseOther(exc) == [kind |-> "raise", exc |-> exc]
Return(v) == [kind |-> "return", value |-> v]

Request(verb, u, body) == [verb |-> verb, url |-> u, body |-> body]

VARIABLES server, default_details, pc, call, log, outcome, uei, merged

vars == <<server, default_details, pc, call, log, outcome, uei, merged>>

NoUei == [active |-> FALSE]

Init ==
    /\ server \in [ReleaseIds -> Releases \cup {None}]
    /\ default_details = EmptyObj
    /\ pc = "idle"
    /\ call = [op |-> "none"]
    /\ log = <<>>
    /\ outcome = [kind |-> "none"]
    /\ uei = NoUei
    /\ merged = FALSE

\* ------------------------------------------------- transport collaborator
\* a JSON array
JsonList(items) == [list |-> items]
ReleaseLists == {JsonList(<<>>), JsonList(<<[version |-> "1.0"]>>)}
Envelope(inner) == "_embedded" :> inner
ListResponses ==
    {None, EmptyObj, "page" :> 1, Envelope(EmptyObj), Envelope("sw360:components" :> JsonList(<<>>))}
        \cup {Envelope("sw360:releases" :> l) : l \in ReleaseLists}
        \cup {Envelope("sw360:releases" :> l) @@ ("page" :> 1) : l \in ReleaseLists}

\* what GET /releases/{id} can answer in the current server state
ApiGetReleaseResponses(release_id) ==
    IF release_id \in ReleaseIds /\ server[release_id] # None THEN {server[release_id]}
    ELSE IF release_id = "" THEN {None, Envelope("sw360:releases" :> JsonList(<<>>))}
    ELSE {None, EmptyObj}

\* api_get(url): one GET; the JSON body, None, or the transport's own error
api_get(u, resp, fail) ==
    [log |-> <<Request("GET", u, None)>>,
     outcome |-> IF fail THEN RaiseOther("TransportError") ELSE Return(resp)]

\* what the server can answer to PATCH/DELETE /releases/{id}
ServerResponses(release_id) ==
    IF release_id \in ReleaseIds /\ server[release_id] # None THEN Responses
    ELSE {r \in Responses : ~Is2xx(r)}

\* the server's state after a request it answered with response
ServerAfter(verb, release_id, body, response) ==
    IF release_id \in ReleaseIds /\ Is2xx(response)
    THEN [server EXCEPT ![release_id] = IF verb = "PATCH" THEN body ELSE None]
    ELSE server

\* ------------------------------------------------------ release operations
\* the "if response.ok: return response.json(); raise SW360Error(response, url)" tail
WriteResult(response, u) ==
    IF ResponseOk(response)
    THEN IF JsonLoads(response.text).ok
         THEN Return(JsonLoads(response.text).value)
         ELSE RaiseOther("JSONDecodeError")
    ELSE Raise(SW360Error(response, u, ""))

get_release(release_id, resp, fail) ==
    api_get(url \o <<"resource/api/releases/">> \o Str(release_id), resp, fail)

UnwrapEmbeddedOnly(resp) ==
    IF Truthy(resp) /\ "_embedded" \in DOMAIN resp
    THEN IF "sw360:releases" \in DOMAIN resp["_embedded"]
         THEN resp["_embedded"]["sw360:releases"]
         ELSE JsonList(<<>>)
    ELSE resp

\* the envelope unwrapping of the listing operations
Unwrap(resp) ==
    IF Truthy(resp) /\ "_embedded" \in DOMAIN resp
         /\ "sw360:releases" \in DOMAIN resp["_embedded"]
    THEN resp["_embedded"]["sw360:releases"]
    ELSE resp

AllReleasesUrl(fields, all_details) ==
    LET u0 == url \o <<"resource/api/releases">>
        u1 == IF all_details THEN u0 \o <<"?", "allDetails", "=", "true">> ELSE u0
    IN  IF fields # "" THEN u1 \o <<"?", "fields", "=">> \o Str(fields) ELSE u1

MissingIdNever(release_id) == FALSE

\* "if not release_id"
MissingId(release_id) == release_id = ""

update_release(release, release_id, response) ==
    IF MissingId(release_id)
    THEN [log |-> <<>>, outcome |-> Raise(SW360Error(None, <<>>, "No release id provided!"))]
    ELSE LET u == url \o <<"resource/api/releases/">> \o Str(release_id)
         IN  [log |-> <<Request("PATCH", u, release)>>, outcome |-> WriteResult(response, u)]

delete_release(release_id, response) ==
    IF MissingId(release_id)
    THEN [log |-> <<>>, outcome |-> Raise(SW360Error(None, <<>>, "No release id provided!"))]
    ELSE LET u == url \o <<"resource/api/releases/">> \o Str(release_id)
         IN  [log |-> <<Request("DELETE", u, None)>>, outcome |-> WriteResult(response, u)]

CreateBodyKeepExisting(release_details, name, version, component_id) ==
    release_details @@ [name |-> name, version |-> version, componentId |-> component_id]

\* the body create_new_release posts: the three arguments set into the map
CreateBody(release_details, name, version, component_id) ==
    Put(Put(Put(release_details, "name", name), "version", version),
        "componentId", component_id)

\* the shared external-id merge routine (base.py, outside this source tree)
update_external_ids(current_data, ext_id_name, ext_id_value, update_mode) ==
    LET has_map == "externalIds" \in DOMAIN current_data
        ids == IF has_map THEN current_data["externalIds"] ELSE EmptyObj
    IN  IF ext_id_name \notin DOMAIN ids
        THEN [old_value |-> "",
              data |-> Put(current_data, "externalIds", Put(ids, ext_id_name, ext_id_value)),
              update |-> TRUE]
        ELSE CASE update_mode = "overwrite" ->
                    [old_value |-> ids[ext_id_name],
                     data |-> Put(current_data, "externalIds", Put(ids, ext_id_name, ext_id_value)),
                     update |-> TRUE]
               [] update_mode = "delete" ->
                    [old_value |-> ids[ext_id_name],
                     data |-> Put(current_data, "externalIds", Del(ids, ext_id_name)),
                     update |-> TRUE]
               [] OTHER ->
                    [old_value |-> ids[ext_id_name], data |-> current_data, update |-> FALSE]

NotFoundNoneOnly(complete_data) == complete_data = None

\* update_release_external_id: "if not complete_data: return ''"
NotFound(complete_data) == ~Truthy(complete_data)

NeedsUpdateAlways(ret) == TRUE

\* update_release_external_id: "if update:" on the merge routine's result
NeedsUpdate(ret) == ret.update

PatchDataFetched(u) == u.complete_data

PatchDataRefetched(u) ==
    IF u.release_id \in ReleaseIds /\ server[u.release_id] # None
    THEN update_external_ids(server[u.release_id], u.ext_id_name, u.ext_id_value,
                             u.update_mode).data
    ELSE u.data

\* update_release_external_id: the data handed to update_release, which is
\* the merge result computed from the release as fetched
PatchData(u) == u.data

\* ---------------------------------------------------------------- actions
\* a call that runs to completion in one step
Complete(c, lg, out) ==
    /\ pc = "idle"
    /\ pc' = "idle"
    /\ call' = c
    /\ log' = lg
    /\ outcome' = out
    /\ uei' = NoUei
    /\ merged' = FALSE

GetRelease ==
    \E release_id \in CallIds, fail \in BOOLEAN :
      \E resp \in ApiGetReleaseResponses(release_id) :
        LET r == get_release(release_id, resp, fail)
        IN  /\ Complete([op |-> "get_release", release_id |-> release_id], r.log, r.outcome)
            /\ UNCHANGED <<server, default_details>>

GetReleaseByUrl ==
    \E release_url \in {url \o <<"resource/api/releases/", "r1">>, <<"https://other.example/x">>},
       fail \in BOOLEAN, resp \in {None, [version |-> "1.0"]} :
        LET r == api_get(release_url, resp, fail)
        IN  /\ Complete([op |-> "get_release_by_url", release_url |-> release_url], r.log, r.outcome)
            /\ UNCHANGED <<server, default_details>>

Listing(op, u, resp, fail) ==
    LET r == api_get(u, resp, fail)
    IN  /\ Complete([op |-> op, resp |-> resp, fail |-> fail], r.log,
                    IF r.outcome.kind = "raise" THEN r.outcome ELSE Return(Unwrap(resp)))
        /\ UNCHANGED <<server, default_details>>

GetReleasesByName ==
    \E name \in {"R", "S"}, fail \in BOOLEAN, resp \in ListResponses :
        Listing("get_releases_by_name",
                url \o <<"resource/api/releases", "?", "name", "=">> \o Str(name), resp, fail)

Fields == {"", "name", "name,version"}

GetAllReleases ==
    \E fields \in Fields, all_details \in BOOLEAN, fail \in BOOLEAN, resp \in ListResponses :
        LET r == api_get(AllReleasesUrl(fields, all_details), resp, fail)
        IN  /\ Complete([op |-> "get_all_releases", resp |-> resp, fail |-> fail,
                         fields |-> fields, all_details |-> all_details], r.log,
                        IF r.outcome.kind = "raise" THEN r.outcome ELSE Return(Unwrap(resp)))
            /\ UNCHANGED <<server, default_details>>

GetReleasesByExternalId ==
    \E ext_id_name \in ExtIdNames, ext_id_value \in ExtIdValues \cup {""},
       fail \in BOOLEAN, resp \in ListResponses :
        Listing("get_releases_by_external_id",
                url \o <<"resource/api/releases/searchByExternalIds", "?">>
                    \o Str(ext_id_name) \o <<"=">> \o Str(ext_id_value), resp, fail)

GetUsersOfRelease ==
    \E release_id \in CallIds, fail \in BOOLEAN, resp \in {None, EmptyObj, "page" :> 1} :
        LET r == api_get(url \o <<"resource/api/releases/usedBy/">> \o Str(release_id), resp, fail)
        IN  /\ Complete([op |-> "get_users_of_release", release_id |-> release_id], r.log, r.outcome)
            /\ UNCHANGED <<server, default_details>>

ReleaseNames == {"R", "S"}
ComponentIds == {"C1"}
ExtraMaps == {EmptyObj, [mainlineState |-> "OPEN"], [name |-> "T", clearingState |-> "NEW"]}

\* create_new_release: extra = None stands for "argument omitted", in which
\* case release_details is bound to the function's one default dict object
CreateNewRelease ==
    \E name \in ReleaseNames, version \in Versions, component_id \in ComponentIds,
       extra \in ExtraMaps \cup {None}, response \in Responses :
        LET release_details == IF extra = None THEN default_details ELSE extra
            body == CreateBody(release_details, name, version, component_id)
            u == url \o <<"resource/api/releases">>
        IN  /\ Complete([op |-> "create_new_release", name |-> name, version |-> version,
                         component_id |-> component_id, extra |-> extra, response |-> response,
                         default_before |-> default_details],
                        <<Request("POST", u, body)>>, WriteResult(response, u))
            /\ default_details' = IF extra = None THEN body ELSE default_details
            /\ UNCHANGED server

UpdateRelease ==
    \E release \in Releases, release_id \in CallIds :
      \E response \in ServerResponses(release_id) :
        LET r == update_release(release, release_id, response)
        IN  /\ Complete([op |-> "update_release", release_id |-> release_id,
                         response |-> IF r.log = <<>> THEN None ELSE response],
                        r.log, r.outcome)
            /\ server' = IF r.log = <<>> THEN server
                         ELSE ServerAfter("PATCH", release_id, release, response)
            /\ UNCHANGED default_details

DeleteRelease ==
    \E release_id \in CallIds :
      \E response \in ServerResponses(release_id) :
        LET r == delete_release(release_id, response)
        IN  /\ Complete([op |-> "delete_release", release_id |-> release_id,
                         response |-> IF r.log = <<>> THEN None ELSE response],
                        r.log, r.outcome)
            /\ server' = IF r.log = <<>> THEN server
                         ELSE ServerAfter("DELETE", release_id, None, response)
            /\ UNCHANGED default_details

\* update_release_external_id up to (not including) its PATCH: the fetch,
\* the early return, the merge, and the return when nothing is to be updated
UpdateReleaseExternalIdFetch ==
    /\ pc = "idle"
    /\ \E ext_id_name \in ExtIdNames, ext_id_value \in ExtIdValues, release_id \in CallIds,
          update_mode \in UpdateModes, fail \in BOOLEAN :
        \E resp \in ApiGetReleaseResponses(release_id) :
          LET g == get_release(release_id, resp, fail)
              ret == update_external_ids(resp, ext_id_name, ext_id_value, update_mode)
              args == [active |-> TRUE, ext_id_name |-> ext_id_name, ext_id_value |-> ext_id_value,
                       release_id |-> release_id, update_mode |-> update_mode]
          IN  /\ call' = [op |-> "update_release_external_id", response |-> None, stale |-> FALSE]
              /\ log' = g.log
              /\ IF g.outcome.kind = "raise"
                 THEN /\ outcome' = g.outcome
                      /\ uei' = args @@ [fetched |-> FALSE]
                      /\ merged' = FALSE
                      /\ pc' = "idle"
                 ELSE IF NotFound(resp)
                 THEN /\ outcome' = Return("")
                      /\ uei' = args @@ [fetched |-> TRUE, complete_data |-> resp]
                      /\ merged' = FALSE
                      /\ pc' = "idle"
                 ELSE /\ uei' = args @@ [fetched |-> TRUE, complete_data |-> resp,
                                         old_value |-> ret.old_value, data |-> ret.data,
                                         update |-> ret.update]
                      /\ merged' = TRUE
                      /\ IF NeedsUpdate(ret)
                         THEN /\ pc' = "uei_update"
                              /\ outcome' = [kind |-> "none"]
                         ELSE /\ pc' = "idle"
                              /\ outcome' = Return(ret.old_value)
    /\ UNCHANGED <<server, default_details>>

\* the release on the server is no longer the one the GET fetched
Stale == uei.release_id \in ReleaseIds /\ server[uei.release_id] # uei.complete_data

\* the rest of update_release_external_id: update_release(data, release_id)
UpdateReleaseExternalIdUpdate ==
    /\ pc = "uei_update"
    /\ \E response \in ServerResponses(uei.release_id) :
        LET r == update_release(PatchData(uei), uei.release_id, response)
        IN  /\ call' = [call EXCEPT !.response = IF r.log = <<>> THEN None ELSE response,
                                     !.stale = Stale]
            /\ log' = log \o r.log
            /\ outcome' = IF r.outcome.kind = "raise" THEN r.outcome ELSE Return(uei.old_value)
            /\ server' = IF r.log = <<>> THEN server
                         ELSE ServerAfter("PATCH", uei.release_id, PatchData(uei), response)
    /\ pc' = "idle"
    /\ UNCHANGED <<default_details, uei, merged>>

\* another client of the same server changes a release
ExternalWriter ==
    /\ \E release_id \in ReleaseIds, new \in Releases :
        /\ server[release_id] # None
        /\ new # server[release_id]
        /\ server' = [server EXCEPT ![release_id] = new]
    /\ UNCHANGED <<default_details, pc, call, log, outcome, uei, merged>>

\* a caller constructs the error type directly
ConstructError ==
    \E response \in Responses \cup {None}, errurl \in {<<>>, url}, message \in {"", "boom"} :
        /\ Complete([op |-> "SW360Error", response |-> response, url |-> errurl,
                     message |-> message],
                    <<>>, Return(SW360Error(response, errurl, message)))
        /\ UNCHANGED <<server, default_details>>

Next ==
    \/ GetRelease
    \/ GetReleaseByUrl
    \/ GetReleasesByName
    \/ GetAllReleases
    \/ GetReleasesByExternalId
    \/ GetUsersOfRelease
    \/ CreateNewRelease
    \/ UpdateRelease
    \/ DeleteRelease
    \/ UpdateReleaseExternalIdFetch
    \/ UpdateReleaseExternalIdUpdate
    \/ ExternalWriter
    \/ ConstructError

Spec == Init /\ [][Next]_vars

\* The client keeps nothing between calls but the default dict of
\* create_new_release, so the operations are also checked in three groups,
\* each a part of Next with the same Init.

\* the read operations
NextRead ==
    \/ GetRelease
    \/ GetReleaseByUrl
    \/ GetReleasesByName
    \/ GetAllReleases
    \/ GetReleasesByExternalId
    \/ GetUsersOfRelease

SpecRead == Init /\ [][NextRead]_vars

\* the write operations and the error they raise
NextWrite ==
    \/ CreateNewRelease
    \/ UpdateRelease
    \/ DeleteRelease
    \/ ConstructError

SpecWrite == Init /\ [][NextWrite]_vars

\* the read-modify-write of an external id, next to another writer
NextExternalId ==
    \/ UpdateReleaseExternalIdFetch
    \/ UpdateReleaseExternalIdUpdate
    \/ ExternalWriter

SpecExternalId == Init /\ [][NextExternalId]_vars

\* ================================================================= claims
ReleaseUrl(release_id) == url \o <<"resource/api/releases/">> \o Str(release_id)
HasExtId(release, name) ==
    "externalIds" \in DOMAIN release /\ name \in DOMAIN release["externalIds"]
Patches == {i \in 1..Len(log) : log[i].verb = "PATCH"}

\* update_release_external_id has finished
UeiDone == pc = "idle" /\ call.op = "update_release_external_id"
\* ... and its GET found the release it was called for
UeiOnRelease ==
    UeiDone /\ uei.release_id # "" /\ uei.fetched /\ Truthy(uei.complete_data)
\* the server answered the PATCH with an ok status and a JSON body
PatchAccepted ==
    /\ call.response # None
    /\ call.response.status_code < 400
    /\ call.response.text = JsonText

\* C1: on a release whose external ids already hold the name with value old:
\* mode "none" returns old without any PATCH; mode "overwrite" issues exactly
\* one PATCH, after the GET, whose body has the name set to the new value;
\* mode "delete" issues exactly one PATCH, after the GET, whose body has no
\* entry for the name; both return old once the server has accepted the PATCH.
C1_ExistingExternalId ==
    (UeiOnRelease /\ HasExtId(uei.complete_data, uei.ext_id_name)) =>
        LET old == uei.complete_data["externalIds"][uei.ext_id_name]
        IN  /\ Len(log) >= 1
            /\ log[1] = Request("GET", ReleaseUrl(uei.release_id), None)
            /\ uei.update_mode = "none" =>
                  /\ Patches = {}
                  /\ Len(log) = 1
                  /\ outcome = Return(old)
            /\ uei.update_mode = "overwrite" =>
                  /\ Patches = {2}
                  /\ Len(log) = 2
                  /\ log[2].url = ReleaseUrl(uei.release_id)
                  /\ HasExtId(log[2].body, uei.ext_id_name)
                  /\ log[2].body["externalIds"][uei.ext_id_name] = uei.ext_id_value
                  /\ PatchAccepted => outcome = Return(old)
            /\ uei.update_mode = "delete" =>
                  /\ Patches = {2}
                  /\ Len(log) = 2
                  /\ log[2].url = ReleaseUrl(uei.release_id)
                  /\ ~HasExtId(log[2].body, uei.ext_id_name)
                  /\ PatchAccepted => outcome = Return(old)

C1_Witness ==
    /\ UeiOnRelease
    /\ HasExtId(uei.complete_data, uei.ext_id_name)
    /\ uei.update_mode = "overwrite"
    /\ uei.complete_data["externalIds"][uei.ext_id_name] # uei.ext_id_value
    /\ PatchAccepted
    /\ outcome = Return(uei.complete_data["externalIds"][uei.ext_id_name])

C3_NotFoundReturnsEmpty ==
    (UeiDone /\ uei.fetched /\ ~Truthy(uei.complete_data)) =>
        /\ outcome = Return("")
        /\ ~merged
        /\ log = <<Request("GET", ReleaseUrl(uei.release_id), None)>>

C3_Witness ==
    /\ UeiDone
    /\ uei.fetched
    /\ uei.complete_data = EmptyObj
    /\ uei.update_mode = "overwrite"
    /\ outcome = Return("")

\* C4: update_release and delete_release with an empty id raise the typed
\* error without any HTTP request, and the error carries a message only:
\* its response is None and its url is empty.
C4_PreconditionError ==
    (call.op \in {"update_release", "delete_release"} /\ call.release_id = "") =>
        /\ log = <<>>
        /\ outcome.kind = "raise"
        /\ outcome.exc = "SW360Error"
        /\ outcome.error.message = "No release id provided!"
        /\ outcome.error.response = None
        /\ outcome.error.url = <<>>

C4_Witness ==
    /\ call.op = "delete_release"
    /\ call.release_id = ""
    /\ log = <<>>
    /\ outcome.kind = "raise"

WriteOps == {"create_new_release", "update_release", "delete_release"}
VerbOf(op) ==
    CASE op = "create_new_release" -> "POST"
      [] op = "update_release" -> "PATCH"
      [] op = "delete_release" -> "DELETE"
\* a write operation that got past its precondition
WriteCall == call.op \in WriteOps /\ (call.op = "create_new_release" \/ call.release_id # "")

C6_DefaultBodyIsOwnArguments ==
    (call.op = "create_new_release" /\ call.extra = None) =>
        /\ Len(log) = 1
        /\ log[1].verb = "POST"
        /\ log[1].body = [name |-> call.name, version |-> call.version,
                          componentId |-> call.component_id]

C6_Witness ==
    /\ call.op = "create_new_release"
    /\ call.extra = None
    /\ call.default_before # EmptyObj
    /\ call.default_before["name"] # call.name
    /\ call.default_before["version"] # call.version
    /\ log[1].body["name"] = call.name

ListingOps == {"get_all_releases", "get_releases_by_name", "get_releases_by_external_id"}
HasCollection(r) ==
    /\ r # None
    /\ "_embedded" \in DOMAIN r
    /\ "sw360:releases" \in DOMAIN r["_embedded"]

\* C7: a listing operation returns the inner list when the transport's
\* response has "_embedded" holding "sw360:releases", and in every other
\* case returns the response unchanged, without raising.
C7_EnvelopeUnwrap ==
    (call.op \in ListingOps /\ ~call.fail) =>
        /\ outcome.kind = "return"
        /\ IF HasCollection(call.resp)
           THEN outcome.value = call.resp["_embedded"]["sw360:releases"]
           ELSE outcome.value = call.resp

C7_Witness ==
    /\ call.op = "get_releases_by_external_id"
    /\ ~call.fail
    /\ HasCollection(call.resp)
    /\ outcome = Return(JsonList(<<[version |-> "1.0"]>>))

\* how an HTTP server reads a URL: the path up to the first "?", then the
\* query, split at "&" into parameters, each split at its first "="
FirstIndex(sq, tok) ==
    LET I == {i \in 1..Len(sq) : sq[i] = tok}
    IN  IF I = {} THEN 0 ELSE CHOOSE i \in I : \A j \in I : i <= j
PathOf(u) == IF FirstIndex(u, "?") = 0 THEN u ELSE SubSeq(u, 1, FirstIndex(u, "?") - 1)
QueryOf(u) == IF FirstIndex(u, "?") = 0 THEN <<>> ELSE SubSeq(u, FirstIndex(u, "?") + 1, Len(u))
ParamOf(seg) ==
    IF FirstIndex(seg, "=") = 0 THEN <<seg, <<>>>>
    ELSE <<SubSeq(seg, 1, FirstIndex(seg, "=") - 1),
           SubSeq(seg, FirstIndex(seg, "=") + 1, Len(seg))>>
QueryParams(u) ==
    LET q == QueryOf(u)
    IN  {ParamOf(SubSeq(q, a, b)) :
            <<a, b>> \in {<<a, b>> \in (1..Len(q)) \X (1..Len(q)) :
                            /\ a <= b
                            /\ (a = 1 \/ q[a - 1] = "&")
                            /\ (b = Len(q) \/ q[b + 1] = "&")
                            /\ \A i \in a..b : q[i] # "&"}}

\* C8 as stated: get_all_releases sends one GET to base URL +
\* "resource/api/releases" whose query carries allDetails=true iff
\* all_details is set and fields=<fields> iff fields is non-empty, both as
\* parameters of one query string, and no query string when neither is asked.
C8_QueryParameters ==
    call.op = "get_all_releases" =>
        /\ Len(log) = 1
        /\ log[1].verb = "GET"
        /\ PathOf(log[1].url) = url \o <<"resource/api/releases">>
        /\ (<<<<"allDetails">>, <<"true">>>> \in QueryParams(log[1].url)) <=> call.all_details
        /\ (<<<<"fields">>, Str(call.fields)>> \in QueryParams(log[1].url)) <=> (call.fields # "")
        /\ (~call.all_details /\ call.fields = "") => FirstIndex(log[1].url, "?") = 0

ErrorFields == {"message", "url", "response", "details"}
\* the error object a state holds: raised by an operation, or constructed
HoldsError ==
    \/ (outcome.kind = "raise" /\ outcome.exc = "SW360Error")
    \/ (call.op = "SW360Error" /\ outcome.kind = "return")
TheError == IF outcome.kind = "raise" THEN outcome.error ELSE outcome.value

\* C9 as stated: every constructed error has message, url, response and
\* details defined; details is the parsed body when a response with a JSON
\* body was given, and None otherwise (parse failure, or no response).
C9_AllFieldsDefined ==
    HoldsError =>
        /\ ErrorFields \subseteq DOMAIN TheError
        /\ IF TheError.response # None /\ TheError.response.text = JsonText
           THEN TheError.details = [a |-> 1]
           ELSE TheError.details = None

\* the release as fetched, with nothing but the external id name changed
FetchedExceptId(body, fetched, name) ==
    /\ DOMAIN body = DOMAIN fetched \cup {"externalIds"}
    /\ \A k \in DOMAIN fetched \ {"externalIds"} : body[k] = fetched[k]
    /\ \A n \in ExtIdNames \ {name} :
          /\ HasExtId(body, n) <=> HasExtId(fetched, n)
          /\ HasExtId(body, n) => body["externalIds"][n] = fetched["externalIds"][n]

\* C10: when another writer changed the release between the GET and the
\* PATCH, the PATCH still carries the release as the GET fetched it with only
\* the external id changed; once the server applies it, the server holds
\* exactly that body (the other writer's change is gone), and the call
\* returns the old value without raising on account of the conflict.
C10_LastWriteWins ==
    [][(pc = "uei_update" /\ pc' = "idle" /\ Stale) =>
          /\ Len(log') = 2
          /\ log'[2].verb = "PATCH"
          /\ FetchedExceptId(log'[2].body, uei.complete_data, uei.ext_id_name)
          /\ (200 <= call'.response.status_code /\ call'.response.status_code < 300) =>
                server'[uei.release_id] = log'[2].body
          /\ (call'.response.status_code < 400 /\ call'.response.text = JsonText) =>
                outcome' = Return(uei.old_value)
          /\ call'.response.status_code < 400 =>
                ~(outcome'.kind = "raise" /\ outcome'.exc = "SW360Error")]_vars

C10_Witness ==
    /\ UeiOnRelease
    /\ call.stale
    /\ Len(log) = 2
    /\ call.response.status_code = 200
    /\ outcome = Return(uei.old_value)
    /\ server[uei.release_id] = log[2].body
    /\ FetchedExceptId(server[uei.release_id], uei.complete_data, uei.ext_id_name)

====
